---- MODULE Spec2Model ----
(***************************************************************************)
(* Model of main.ts: three monad examples (Array<string>, MaybeInteger,    *)
(* loggedValue) with their single-step bind and their variadic chain bind. *)
(*                                                                         *)
(* A run of the model is one composition a caller builds: it picks an      *)
(* initial container and a list of transforms, and threads the container   *)
(* through the list either by nesting the single-step bind                 *)
(* (bindA(bindA(x, f), g), as the demo lines do) or by one call of the     *)
(* chain bind, whose for-loop is followed iteration by iteration.          *)
(*                                                                         *)
(* JavaScript values are records tagged by "type"; a JavaScript string is  *)
(* a sequence of pieces and + / concat / template literals are \o.         *)
(***************************************************************************)
EXTENDS Integers, Sequences, FiniteSets, TLC

\* ------------------------------------------------------------------ bounds
\* raw integers fed to wrapper are -MaxInt .. MaxInt
MaxInt == 8
\* longest initial array of Example A
MaxLen == 2
\* longest transform list, per example
MaxChainA == 3
MaxChainB == 4
MaxChainC == 3

\* ------------------------------------------------------- JavaScript values
Undefined == [type |-> "undefined"]

NaN == [type |-> "NaN"]

RECURSIVE GCD(_, _)
GCD(a, b) == IF b = 0 THEN a ELSE GCD(b, a % b)

Abs(k) == IF k < 0 THEN -k ELSE k

\* the number n/d (d > 0), in lowest terms
Rat(n, d) ==
    LET g == GCD(Abs(n), d)
    IN  [type |-> "number", num |-> n \div g, den |-> d \div g]

Num(k) == Rat(k, 1)

\* n + k, n * k, n / k with k a positive integer literal of the code: NaN
\* when n is undefined or NaN
Plus(n, k) ==
    IF n.type # "number" THEN NaN ELSE Rat(n.num + k * n.den, n.den)

Times(n, k) ==
    IF n.type # "number" THEN NaN ELSE Rat(n.num * k, n.den)

Over(n, k) ==
    IF n.type # "number" THEN NaN ELSE Rat(n.num, n.den * k)

\* mutant: typeof v === "number" in place of Number.isInteger(v)
NumberIsInteger_typeofNumber(v) == v.type = "number"

\* Number.isInteger: false for undefined, NaN and every non-integral number
NumberIsInteger(v) == v.type = "number" /\ v.den = 1

\* ------------------------------------------------------ Example A: arrays
\* a string is a sequence of text pieces; s + ' x' appends a piece
Text(s) == [piece |-> "text", s |-> s]

transformA1(s) == << s \o <<Text(" apple-red")>>, s \o <<Text(" apple-green")>> >>

transformA2(s) ==
    << s \o <<Text(" smile")>>, s \o <<Text(" heart-eyes")>>, s \o <<Text(" tongue")>> >>

transformA3(s) ==
    << s \o <<Text(" TR")>>, s \o <<Text(" US")>>, s \o <<Text(" DE")>> >>

\* a transform a caller may pass besides the three of the file: no output
transformA0(s) == << >>

TransformsA == {"transformA0", "transformA1", "transformA2", "transformA3"}

\* the call transformFunction(str) of a (s: string) => Array<string>
ApplyA(f, s) ==
    CASE f = "transformA1" -> transformA1(s)
      [] f = "transformA2" -> transformA2(s)
      [] f = "transformA3" -> transformA3(s)
      [] OTHER -> transformA0(s)

\* Array.prototype.map with the callback str => transformFunction(str)
ArrayMap(xs, f) == [k \in 1 .. Len(xs) |-> ApplyA(f, xs[k])]

\* mutant: flattening that puts later groups first
RECURSIVE ArrayFlat_reversed(_)
ArrayFlat_reversed(xss) ==
    IF Len(xss) = 0 THEN << >> ELSE ArrayFlat_reversed(Tail(xss)) \o Head(xss)

\* Array.prototype.flat(): one level
RECURSIVE ArrayFlat(_)
ArrayFlat(xss) ==
    IF Len(xss) = 0 THEN << >> ELSE Head(xss) \o ArrayFlat(Tail(xss))

\* Array.prototype.flatMap with the callback item => f(item)
RECURSIVE ArrayFlatMap(_, _)
ArrayFlatMap(xs, f) ==
    IF Len(xs) = 0 THEN << >>
    ELSE ApplyA(f, Head(xs)) \o ArrayFlatMap(Tail(xs), f)

\* the invocations of f that mapping f over xs makes, in order
InvocationsA(xs, f) == [k \in 1 .. Len(xs) |-> [fn |-> f, arg |-> xs[k]]]

bindA(startArray, transformFunction) ==
    LET ret == ArrayMap(startArray, transformFunction)
    IN  ArrayFlat(ret)

bindACalls(startArray, transformFunction) ==
    InvocationsA(startArray, transformFunction)

\* mutant: the transform applied to the first item only
bindChainABody_firstItemOnly(ret, currentTransformFunction) ==
    IF Len(ret) = 0 THEN << >> ELSE ApplyA(currentTransformFunction, ret[1])

\* one iteration of the for-loop of bindChainA
bindChainABody(ret, currentTransformFunction) ==
    ArrayFlatMap(ret, currentTransformFunction)

bindChainABodyCalls(ret, currentTransformFunction) ==
    InvocationsA(ret, currentTransformFunction)

RECURSIVE bindChainALoop(_, _, _)
bindChainALoop(ret, allTransformFunctions, k) ==
    IF k > Len(allTransformFunctions) THEN ret
    ELSE bindChainALoop(bindChainABody(ret, allTransformFunctions[k]),
                        allTransformFunctions, k + 1)

\* mutant: let ret = [] in place of let ret = initialArray
bindChainA_freshArray(initialArray, allTransformFunctions) ==
    bindChainALoop(<< >>, allTransformFunctions, 1)

bindChainA(initialArray, allTransformFunctions) ==
    bindChainALoop(initialArray, allTransformFunctions, 1)

\* ----------------------------------------------- Example B: MaybeInteger
\* mutant: this.value = n set in both branches
NewMaybeInteger_keepsValue(n) ==
    [type |-> "MaybeInteger", isInteger |-> NumberIsInteger(n), value |-> n]

\* the constructor: an instance built from a non-integer has no value property
NewMaybeInteger(n) ==
    IF ~NumberIsInteger(n)
    THEN [type |-> "MaybeInteger", isInteger |-> FALSE]
    ELSE [type |-> "MaybeInteger", isInteger |-> TRUE, value |-> n]

wrapper(n) ==
    IF ~NumberIsInteger(n) THEN NewMaybeInteger(Undefined)
    ELSE NewMaybeInteger(n)

\* n.value: undefined when the instance has no such property
unwrapper(n) == IF "value" \in DOMAIN n THEN n.value ELSE Undefined

add1(n) ==
    IF ~NumberIsInteger(n) THEN NewMaybeInteger(Undefined)
    ELSE wrapper(Plus(n, 1))

multiplyBy2(n) ==
    IF ~NumberIsInteger(n) THEN NewMaybeInteger(Undefined)
    ELSE wrapper(Times(n, 2))

divideBy2(n) ==
    IF ~NumberIsInteger(n) \/ ~NumberIsInteger(Over(n, 2))
    THEN NewMaybeInteger(Undefined)
    ELSE wrapper(Over(n, 2))

\* mutant: divideBy3 pasted from divideBy2 with the result left as n / 2
divideBy3_halves(n) ==
    IF ~NumberIsInteger(n) \/ ~NumberIsInteger(Over(n, 3))
    THEN NewMaybeInteger(Undefined)
    ELSE wrapper(Over(n, 2))

divideBy3(n) ==
    IF ~NumberIsInteger(n) \/ ~NumberIsInteger(Over(n, 3))
    THEN NewMaybeInteger(Undefined)
    ELSE wrapper(Over(n, 3))

TransformsB == {"add1", "multiplyBy2", "divideBy2", "divideBy3"}

\* the call transformFunction(v) of a (n: number) => MaybeInteger
ApplyB(f, n) ==
    CASE f = "add1" -> add1(n)
      [] f = "multiplyBy2" -> multiplyBy2(n)
      [] f = "divideBy2" -> divideBy2(n)
      [] OTHER -> divideBy3(n)

bindB(mn, transformFunction) ==
    IF mn = Undefined THEN NewMaybeInteger(Undefined)
    ELSE ApplyB(transformFunction, unwrapper(mn))

\* the invocations of transformFunction that bindB(mn, transformFunction) makes
bindBCalls(mn, transformFunction) ==
    IF mn = Undefined THEN << >>
    ELSE << [fn |-> transformFunction, arg |-> unwrapper(mn)] >>

\* one iteration of the for-loop of bindChainB, past its ret === undefined test
bindChainBBody(ret, currentTransformFunction) ==
    ApplyB(currentTransformFunction, unwrapper(ret))

bindChainBBodyCalls(ret, currentTransformFunction) ==
    << [fn |-> currentTransformFunction, arg |-> unwrapper(ret)] >>

\* mutant: a loop that stops one transform early
RECURSIVE bindChainBLoop_skipsLast(_, _, _)
bindChainBLoop_skipsLast(ret, allTransformFunctions, k) ==
    IF k >= Len(allTransformFunctions) THEN ret
    ELSE IF ret = Undefined THEN NewMaybeInteger(Undefined)
    ELSE bindChainBLoop_skipsLast(bindChainBBody(ret, allTransformFunctions[k]),
                                  allTransformFunctions, k + 1)

RECURSIVE bindChainBLoop(_, _, _)
bindChainBLoop(ret, allTransformFunctions, k) ==
    IF k > Len(allTransformFunctions) THEN ret
    ELSE IF ret = Undefined THEN NewMaybeInteger(Undefined)
    ELSE bindChainBLoop(bindChainBBody(ret, allTransformFunctions[k]),
                        allTransformFunctions, k + 1)

bindChainB(mn, allTransformFunctions) ==
    bindChainBLoop(mn, allTransformFunctions, 1)

\* ------------------------------------------------ Example C: loggedValue
\* a numeric string: the number it denotes and the format it is written in.
\* The strings of the model denote numbers of at most 3 decimals and 6
\* significant digits, which toFixed(3) and toExponential(5) render exactly.
Numeral(fmt, n) == [piece |-> "numeral", fmt |-> fmt, val |-> n]

\* Number.parseFloat: the number the string starts with, NaN if there is none
parseFloat(x) ==
    IF Len(x) > 0 /\ Head(x).piece = "numeral" THEN Head(x).val ELSE NaN

toFixed3(n) == IF n = NaN THEN <<Text("NaN")>> ELSE <<Numeral("fixed3", n)>>

toExponential5(n) == IF n = NaN THEN <<Text("NaN")>> ELSE <<Numeral("exp5", n)>>

wrap(x) == [value |-> x, log |-> << >>]

transform1(x) ==
    [log |-> x \o <<Text(" toFixed(3) is used")>>,
     value |-> toFixed3(parseFloat(x))]

transform2(x) ==
    [log |-> x \o <<Text(" toExponential(5) is used")>>,
     value |-> toExponential5(parseFloat(x))]

TransformsC == {"transform1", "transform2"}

ApplyC(f, x) ==
    CASE f = "transform1" -> transform1(x)
      [] OTHER -> transform2(x)

\* mutant: the new entry put before the log so far
bindC_prependsLog(a, f) ==
    [value |-> ApplyC(f, a.value).value,
     log |-> (ApplyC(f, a.value).log \o a.log) \o <<Text(" \n ")>>]

bindC(a, f) ==
    [value |-> ApplyC(f, a.value).value,
     log |-> (a.log \o ApplyC(f, a.value).log) \o <<Text(" \n ")>>]

\* bindC evaluates f(a.value) twice: once for the value, once for the log
bindCCalls(a, f) ==
    << [fn |-> f, arg |-> a.value], [fn |-> f, arg |-> a.value] >>

\* the chain bind over logged values that the header of Example C names
RECURSIVE bindChainCLoop(_, _, _)
bindChainCLoop(ret, allTransformFunctions, k) ==
    IF k > Len(allTransformFunctions) THEN ret
    ELSE bindChainCLoop(bindC(ret, allTransformFunctions[k]),
                        allTransformFunctions, k + 1)

bindChainC(a, allTransformFunctions) ==
    bindChainCLoop(a, allTransformFunctions, 1)

\* ------------------------------------------------------------------ inputs
SeqsUpTo(S, n) == UNION {[1 .. m -> S] : m \in 0 .. n}

RawStringsA == {<<Text("start")>>, <<Text("start2")>>}

\* integers, and two numbers that are not: 3.14 and 0.5
RawNumbers == {Num(k) : k \in -MaxInt .. MaxInt} \cup {Rat(157, 50), Rat(1, 2)}

RawStringsC ==
    {<<Numeral("plain", Rat(1234, 100))>>, <<Numeral("plain", Num(555))>>,
     <<Text("abc")>>}

\* ------------------------------------------------------------------- state
VARIABLES
    kind,   \* the example: "A", "B" or "C"
    mode,   \* "bind": nested single-step binds; "chain": one chain-bind call
    raw,    \* the raw value the initial container was built from
    init,   \* the initial container
    fns,    \* the transforms, in order
    i,      \* how many of them have been consumed
    ret,    \* the current container
    prev,   \* the container before the last step
    calls,  \* the transform invocations of the last step
    trace,  \* every transform invocation so far
    pc      \* "run" or "done"

vars == <<kind, mode, raw, init, fns, i, ret, prev, calls, trace, pc>>

Start(k, r, x, fs) ==
    /\ kind = k
    /\ mode \in {"bind", "chain"}
    /\ raw = r
    /\ init = x
    /\ fns = fs
    /\ i = 0
    /\ ret = x
    /\ prev = x
    /\ calls = << >>
    /\ trace = << >>
    /\ pc = "run"

InitA ==
    \E xs \in SeqsUpTo(RawStringsA, MaxLen), fs \in SeqsUpTo(TransformsA, MaxChainA) :
        Start("A", xs, xs, fs)

InitB ==
    \E fs \in SeqsUpTo(TransformsB, MaxChainB) :
        \/ \E n \in RawNumbers : Start("B", n, wrapper(n), fs)
        \/ \E n \in RawNumbers \cup {Undefined} : Start("B", n, NewMaybeInteger(n), fs)
        \/ Start("B", Undefined, Undefined, fs)

InitC ==
    \E x \in RawStringsC, fs \in SeqsUpTo(TransformsC, MaxChainC) :
        Start("C", x, wrap(x), fs)

Init == InitA \/ InitB \/ InitC

\* a step that threads the container through the next transform
Step(r, c) ==
    /\ ret' = r
    /\ prev' = ret
    /\ calls' = c
    /\ trace' = trace \o c
    /\ i' = i + 1
    /\ UNCHANGED <<kind, mode, raw, init, fns, pc>>

Running(k, m) == pc = "run" /\ kind = k /\ mode = m /\ i < Len(fns)

BindAStep ==
    /\ Running("A", "bind")
    /\ Step(bindA(ret, fns[i + 1]), bindACalls(ret, fns[i + 1]))

BindChainAStep ==
    /\ Running("A", "chain")
    /\ Step(bindChainABody(ret, fns[i + 1]), bindChainABodyCalls(ret, fns[i + 1]))

BindBStep ==
    /\ Running("B", "bind")
    /\ Step(bindB(ret, fns[i + 1]), bindBCalls(ret, fns[i + 1]))

BindChainBStep ==
    /\ Running("B", "chain")
    /\ ret # Undefined
    /\ Step(bindChainBBody(ret, fns[i + 1]), bindChainBBodyCalls(ret, fns[i + 1]))

\* if (ret === undefined) return new MaybeInteger(undefined)
BindChainBUndefined ==
    /\ Running("B", "chain")
    /\ ret = Undefined
    /\ ret' = NewMaybeInteger(Undefined)
    /\ prev' = ret
    /\ calls' = << >>
    /\ pc' = "done"
    /\ UNCHANGED <<kind, mode, raw, init, fns, i, trace>>

BindCStep ==
    /\ Running("C", "bind")
    /\ Step(bindC(ret, fns[i + 1]), bindCCalls(ret, fns[i + 1]))

BindChainCStep ==
    /\ Running("C", "chain")
    /\ Step(bindC(ret, fns[i + 1]), bindCCalls(ret, fns[i + 1]))

\* the loop is over (or the nesting is complete): ret is the result
Return ==
    /\ pc = "run"
    /\ i = Len(fns)
    /\ pc' = "done"
    /\ UNCHANGED <<kind, mode, raw, init, fns, i, ret, prev, calls, trace>>

Next ==
    \/ BindAStep
    \/ BindChainAStep
    \/ BindBStep
    \/ BindChainBStep
    \/ BindChainBUndefined
    \/ BindCStep
    \/ BindChainCStep
    \/ Return

Spec == Init /\ [][Next]_vars

\* ------------------------------------------------------------ vocabulary
IsMaybeInteger(m) == m.type = "MaybeInteger"

IsAbsent(m) == IsMaybeInteger(m) /\ ~m.isInteger

IsPresent(m) == IsMaybeInteger(m) /\ m.isInteger

Prefix(fs, k) == SubSeq(fs, 1, k)

Suffix(fs, k) == SubSeq(fs, k + 1, Len(fs))

\* the transform the last step consumed
LastFn == fns[i]

\* ---------------------------------------------------------------- claims

\* C1: in bindChainB, once the current container is Absent, no further
\* transform of the list is invoked and the container stays Absent up to
\* the result.
C1_AbsentSkipsRest ==
    [][(kind = "B" /\ mode = "chain" /\ pc = "run" /\ IsAbsent(ret))
          => (trace' = trace /\ IsAbsent(ret'))]_vars

\* C2: bindB on an Absent container returns Absent without invoking the
\* transform; on Present(v) it invokes the transform exactly once, with v,
\* and returns exactly what the transform returned.
C2_BindBShortCircuits ==
    (kind = "B" /\ mode = "bind" /\ i > 0) =>
        /\ IsAbsent(prev) => (IsAbsent(ret) /\ calls = << >>)
        /\ IsPresent(prev) =>
              /\ calls = << [fn |-> LastFn, arg |-> prev.value] >>
              /\ ret = ApplyB(LastFn, prev.value)

\* the separator bindC is found to put after every log entry
LogSeparator == <<Text(" \n ")>>

\* C3 as stated: bindC(a, f) has the value of f(a.value) and the log a.log
\* followed by the log of f(a.value), nothing else; so the log of
\* bindC(bindC(wrap(x), f), g) is the log of f's step followed by g's.
C3_LogIsPlainConcatenation ==
    (kind = "C" /\ mode = "bind" /\ i > 0) =>
        LET step == ApplyC(LastFn, prev.value)
        IN  /\ ret.value = step.value
            /\ ret.log = prev.log \o step.log
            /\ i = 2 =>
                  LET first == ApplyC(fns[1], raw)
                  IN  ret.log = first.log \o ApplyC(fns[2], first.value).log

\* C3 as amended: bindC(a, f) has the value of f(a.value) and the log a.log
\* followed by the log of f(a.value) followed by the separator " \n "; so
\* the log of bindC(bindC(wrap(x), f), g) is f's log, the separator, g's
\* log, the separator, in call order and each once.
C3_LogIsConcatenationWithSeparator ==
    (kind = "C" /\ mode = "bind" /\ i > 0) =>
        LET step == ApplyC(LastFn, prev.value)
        IN  /\ ret.value = step.value
            /\ ret.log = (prev.log \o step.log) \o LogSeparator
            /\ i = 2 =>
                  LET first == ApplyC(fns[1], raw)
                  IN  ret.log = first.log \o LogSeparator
                                  \o ApplyC(fns[2], first.value).log \o LogSeparator

C3_Witness ==
    /\ kind = "C" /\ mode = "bind" /\ i = 2
    /\ fns[1] = "transform2" /\ fns[2] = "transform1"
    /\ Len(prev.log) > 0

\* C4: a chain bind with zero transforms returns its input unchanged, for
\* arrays (the empty one included), for MaybeInteger (Present or Absent)
\* and for logged values.
C4_EmptyChainIsIdentity ==
    /\ kind = "A" => (bindChainA(init, << >>) = init /\ bindChainA(ret, << >>) = ret)
    /\ kind = "B" => (bindChainB(init, << >>) = init /\ bindChainB(ret, << >>) = ret)
    /\ kind = "C" => (bindChainC(init, << >>) = init /\ bindChainC(ret, << >>) = ret)
    /\ (mode = "chain" /\ pc = "done" /\ Len(fns) = 0) => ret = init

C4_Witness ==
    /\ kind = "A" /\ mode = "chain" /\ pc = "done"
    /\ Len(fns) = 0 /\ Len(init) = MaxLen

\* C5: chaining in two calls equals chaining in one, for arrays and for
\* MaybeInteger: bindChain(bindChain(x, f), g) = bindChain(x, f, g), also
\* when x is empty or Absent and when f yields an empty array or Absent
\* (checked for every way of cutting the transform list in two).
C5_ChainOfChains ==
    (mode = "chain" /\ pc = "done") =>
        \A k \in 0 .. Len(fns) :
            /\ kind = "A" =>
                  /\ bindChainA(bindChainA(init, Prefix(fns, k)), Suffix(fns, k))
                        = bindChainA(init, fns)
                  /\ bindChainA(init, fns) = ret
            /\ kind = "B" =>
                  /\ bindChainB(bindChainB(init, Prefix(fns, k)), Suffix(fns, k))
                        = bindChainB(init, fns)
                  /\ bindChainB(init, fns) = ret

C5_Witness ==
    /\ kind = "B" /\ mode = "chain" /\ pc = "done"
    /\ Len(fns) = 2
    /\ IsPresent(init)
    /\ IsAbsent(bindChainB(init, Prefix(fns, 1)))

\* the number of outputs t gives for the elements of xs before the k-th
RECURSIVE OutputsBefore(_, _, _)
OutputsBefore(xs, t, k) ==
    IF k <= 1 THEN 0
    ELSE OutputsBefore(xs, t, k - 1) + Len(ApplyA(t, xs[k - 1]))

\* C6: bindA(xs, t) is t(xs[0]) ++ t(xs[1]) ++ ... in element order with
\* duplicates kept: its length is the sum of the lengths of the t(x), an
\* empty xs gives an empty result, and ["start"] through transformA1 then
\* transformA2 gives 6 elements grouped by first-step output.
C6_BindAFlattensInOrder ==
    (kind = "A" /\ mode = "bind" /\ i > 0) =>
        /\ Len(ret) = OutputsBefore(prev, LastFn, Len(prev) + 1)
        /\ \A k \in 1 .. Len(prev) :
              \A j \in 1 .. Len(ApplyA(LastFn, prev[k])) :
                  ret[OutputsBefore(prev, LastFn, k) + j] = ApplyA(LastFn, prev[k])[j]
        /\ Len(prev) = 0 => Len(ret) = 0
        /\ (init = <<<<Text("start")>>>> /\ i = 2
              /\ fns[1] = "transformA1" /\ fns[2] = "transformA2") =>
              ret = << <<Text("start"), Text(" apple-red"), Text(" smile")>>,
                       <<Text("start"), Text(" apple-red"), Text(" heart-eyes")>>,
                       <<Text("start"), Text(" apple-red"), Text(" tongue")>>,
                       <<Text("start"), Text(" apple-green"), Text(" smile")>>,
                       <<Text("start"), Text(" apple-green"), Text(" heart-eyes")>>,
                       <<Text("start"), Text(" apple-green"), Text(" tongue")>> >>

C6_Witness ==
    /\ kind = "A" /\ mode = "bind" /\ i = 2
    /\ init = <<<<Text("start")>>>>
    /\ fns[1] = "transformA1" /\ fns[2] = "transformA2"
    /\ Len(ret) = 6

\* a value that is not an integer: undefined, NaN or a fractional number
NotAnInteger(v) == v.type # "number" \/ v.den # 1

\* C7: each of add1, multiplyBy2, divideBy2, divideBy3 returns Absent on a
\* value that is not an integer (a fractional number, or the undefined an
\* Absent container holds); so wrapper of a non-integer is Absent, and
\* bindB or bindChainB on an Absent container with any sequence of the four
\* transforms is Absent at every step.
C7_NonIntegerYieldsAbsent ==
    kind = "B" =>
        /\ \A f \in TransformsB :
              /\ IsAbsent(ApplyB(f, Undefined))
              /\ NotAnInteger(raw) => IsAbsent(ApplyB(f, raw))
        /\ NotAnInteger(raw) => IsAbsent(wrapper(raw))
        /\ IsAbsent(init) => IsAbsent(ret)

C7_Witness ==
    /\ kind = "B" /\ mode = "chain" /\ pc = "done"
    /\ raw = Rat(157, 50)
    /\ Len(fns) = MaxChainB
    /\ ret = [type |-> "MaybeInteger", isInteger |-> FALSE]

\* the nested form bindA(...bindA(bindA(x, f1), f2)..., fn) and its invocations
RECURSIVE FoldBindA(_, _)
FoldBindA(x, fs) ==
    IF Len(fs) = 0 THEN x
    ELSE bindA(FoldBindA(x, Prefix(fs, Len(fs) - 1)), fs[Len(fs)])

RECURSIVE FoldBindACalls(_, _)
FoldBindACalls(x, fs) ==
    IF Len(fs) = 0 THEN << >>
    ELSE FoldBindACalls(x, Prefix(fs, Len(fs) - 1))
            \o bindACalls(FoldBindA(x, Prefix(fs, Len(fs) - 1)), fs[Len(fs)])

RECURSIVE FoldBindB(_, _)
FoldBindB(x, fs) ==
    IF Len(fs) = 0 THEN x
    ELSE bindB(FoldBindB(x, Prefix(fs, Len(fs) - 1)), fs[Len(fs)])

RECURSIVE FoldBindBCalls(_, _)
FoldBindBCalls(x, fs) ==
    IF Len(fs) = 0 THEN << >>
    ELSE FoldBindBCalls(x, Prefix(fs, Len(fs) - 1))
            \o bindBCalls(FoldBindB(x, Prefix(fs, Len(fs) - 1)), fs[Len(fs)])

\* C8: the chain bind is the left-to-right fold of the single-step bind, for
\* every initial container and transform list, and both forms invoke the
\* transforms in the same order on the same arguments.
C8_ChainIsFoldOfBind ==
    mode = "chain" =>
        /\ kind = "A" =>
              /\ ret = FoldBindA(init, Prefix(fns, i))
              /\ trace = FoldBindACalls(init, Prefix(fns, i))
              /\ pc = "done" => bindChainA(init, fns) = FoldBindA(init, fns)
        /\ (kind = "B" /\ IsMaybeInteger(init)) =>
              /\ ret = FoldBindB(init, Prefix(fns, i))
              /\ trace = FoldBindBCalls(init, Prefix(fns, i))
              /\ pc = "done" => bindChainB(init, fns) = FoldBindB(init, fns)

C8_Witness ==
    /\ kind = "A" /\ mode = "chain" /\ pc = "done"
    /\ Len(fns) = MaxChainA
    /\ Len(init) = MaxLen
    /\ Len(trace) > Len(fns)

\* the integer arithmetic of the four transforms: ok is false once a
\* division is not exact
RefStep(f, r) ==
    CASE ~r.ok -> r
      [] f = "add1" -> [ok |-> TRUE, v |-> r.v + 1]
      [] f = "multiplyBy2" -> [ok |-> TRUE, v |-> r.v * 2]
      [] f = "divideBy2" ->
            IF r.v % 2 = 0 THEN [ok |-> TRUE, v |-> r.v \div 2] ELSE [ok |-> FALSE, v |-> 0]
      [] OTHER ->
            IF r.v % 3 = 0 THEN [ok |-> TRUE, v |-> r.v \div 3] ELSE [ok |-> FALSE, v |-> 0]

RECURSIVE RefChain(_, _)
RefChain(n, fs) ==
    IF Len(fs) = 0 THEN [ok |-> TRUE, v |-> n]
    ELSE RefStep(fs[Len(fs)], RefChain(n, Prefix(fs, Len(fs) - 1)))

Present(k) ==
    [type |-> "MaybeInteger", isInteger |-> TRUE,
     value |-> [type |-> "number", num |-> k, den |-> 1]]

Absent == [type |-> "MaybeInteger", isInteger |-> FALSE]

\* C9: for an integer n and a sequence of the four transforms,
\* bindChainB(wrapper(n), ...) is Present(v) exactly when every division
\* meets an exactly divisible value, v being the composed arithmetic, and
\* Absent otherwise; 8 -> add1 -> multiplyBy2 -> divideBy3 -> divideBy2 is
\* Present(3) and 8 -> add1 -> divideBy2 is Absent.
C9_ChainComputesArithmetic ==
    (kind = "B" /\ mode = "chain" /\ ~NotAnInteger(raw)) =>
        LET r == RefChain(raw.num, Prefix(fns, i))
        IN  /\ init = Present(raw.num)
            /\ ret = IF r.ok THEN Present(r.v) ELSE Absent
            /\ (raw.num = 8 /\ pc = "done"
                  /\ fns = <<"add1", "multiplyBy2", "divideBy3", "divideBy2">>)
                  => ret = Present(3)
            /\ (raw.num = 8 /\ pc = "done" /\ fns = <<"add1", "divideBy2">>)
                  => ret = Absent

C9_Witness ==
    /\ kind = "B" /\ mode = "chain" /\ pc = "done"
    /\ raw = [type |-> "number", num |-> 8, den |-> 1]
    /\ fns = <<"add1", "multiplyBy2", "divideBy3", "divideBy2">>
    /\ ret = Present(3)

WellFormed(m) ==
    IsMaybeInteger(m) =>
        /\ m.isInteger \in BOOLEAN
        /\ m.isInteger <=> ("value" \in DOMAIN m /\ ~NotAnInteger(m.value))
        /\ ~m.isInteger => ("value" \notin DOMAIN m /\ unwrapper(m) = Undefined)

\* C10: every MaybeInteger reachable through the constructor, wrapper, the
\* four transforms, bindB or bindChainB is well formed: isInteger is true
\* iff value is defined and an integer, and an Absent instance holds no
\* value, so unwrapper of it is undefined.
C10_MaybeIntegerWellFormed ==
    kind = "B" =>
        /\ WellFormed(init)
        /\ WellFormed(ret)
        /\ WellFormed(NewMaybeInteger(raw))
        /\ WellFormed(wrapper(raw))
        /\ \A f \in TransformsB : WellFormed(ApplyB(f, raw))

C10_Witness ==
    /\ kind = "B" /\ i > 0
    /\ init = Present(MaxInt)
    /\ ret = Absent
====
